---- MODULE Spec2Model ----
(***************************************************************************)
(* Model of barcode_analyzer.py: the structure heuristic                   *)
(* suggest_structure and the MainWindow result set (rows, boxes, table,    *)
(* notes, JSON export/import).                                             *)
(*                                                                         *)
(* Text is a sequence of characters; a character is a one-element string   *)
(* (the replacement character U+FFFD is the string "U+FFFD").              *)
(***************************************************************************)
EXTENDS Integers, Sequences, FiniteSets, TLC

VARIABLES
    arg,            \* suggest_structure: the argument s
    ret,            \* suggest_structure: locals at return (parts, pattern, groups, hints, text)
    HAS_ZBAR,       \* module flag: decoder importable
    image,          \* MainWindow.image
    rows,           \* MainWindow.rows
    decoded_rects,  \* MainWindow._decoded_rects
    table,          \* MainWindow.table (QTableWidget): cells and hidden flag per row
    results,        \* raw hits returned by the last zbar_decode call that did not raise
    disk,           \* the JSON file written by export_json
    last            \* the handler that ran last, and how it ended

vars == <<arg, ret, HAS_ZBAR, image, rows, decoded_rects, table, results, disk, last>>

----------------------------------------------------------------------------
(* Bounds *)

MaxLen == 8         \* longest enumerated input of suggest_structure
MaxHits == 2        \* longest enumerated hit list of the decode-only specification
MaxEditRow == 1     \* the user edits notes of the first MaxEditRow table rows

(* Program constant *)
MaxRows == 10

----------------------------------------------------------------------------
(* Characters *)

REPLACEMENT == "U+FFFD"
DigitChars == {"0", "1", "2", "3", "4", "5", "6", "7", "8", "9"}
AlphaChars == {"A", "B", "C", "a", "n", "m"}

isdigit(ch) == ch \in DigitChars
isalpha(ch) == ch \in AlphaChars

\* str.isdigit / str.isalpha on a whole string: non-empty and every character in the class
str_isdigit(t) == Len(t) > 0 /\ \A i \in 1..Len(t) : isdigit(t[i])
str_isalpha(t) == Len(t) > 0 /\ \A i \in 1..Len(t) : isalpha(t[i])

\* str(n) for n >= 0
RECURSIVE str_of_int(_)
str_of_int(n) ==
    LET d == CHOOSE c \in DigitChars : ToString(n % 10) = c
    IN  IF n < 10 THEN <<d>> ELSE str_of_int(n \div 10) \o <<d>>

\* sep.join(list)
RECURSIVE join(_, _)
join(sep, list) ==
    IF Len(list) = 0 THEN <<>>
    ELSE IF Len(list) = 1 THEN list[1]
    ELSE list[1] \o sep \o join(sep, Tail(list))

----------------------------------------------------------------------------
(* suggest_structure *)

\* variant: digits and letters share one class
same_class_alnum(ch, prev) == (isdigit(ch) \/ isalpha(ch)) /\ (isdigit(prev) \/ isalpha(prev))

\* the condition of line 64: ch continues the run that ends with prev
same_class(ch, prev) == (isdigit(ch) /\ isdigit(prev)) \/ (isalpha(ch) /\ isalpha(prev))

\* the loop of lines 63-68, followed by the final flush of line 69
RECURSIVE split_loop(_, _, _, _)
split_loop(s, i, buf, parts) ==
    IF i > Len(s) THEN Append(parts, buf)
    ELSE IF same_class(s[i], buf[Len(buf)])
         THEN split_loop(s, i + 1, Append(buf, s[i]), parts)
         ELSE split_loop(s, i + 1, <<s[i]>>, Append(parts, buf))

split_parts(s) == split_loop(s, 2, <<s[1]>>, <<>>)

token_kind(tok) == IF str_isdigit(tok) THEN "N" ELSE IF str_isalpha(tok) THEN "L" ELSE "X"

token_pat(tok) == <<token_kind(tok), "{">> \o str_of_int(Len(tok)) \o <<"}">>

HINT_FLAG9 == <<"i","n","i","z","i","a"," ","c","o","n"," ","9"," ","(","f","l","a","g",")">>
HINT_SUFFIX == <<"s","u","f","f","i","s","s","o"," ","l","e","t","t","e","r","a">>
HINT_SERIAL == <<"p","o","s","s","i","b","i","l","e"," ","s","e","r","i","a","l"," ","n","u","m","e","r","i","c","o">>

\* variant: no length test
hint_flag9_nolen(s) == s[1] = "9"

hint_flag9(s) == s[1] = "9" /\ Len(s) >= 2

hint_suffix(s) == isalpha(s[Len(s)])

\* variant: 7 left out
serial_len_56(n) == n \in {5, 6}

serial_len(n) == n \in {5, 6, 7}

hint_serial(parts) == \E k \in 1..Len(parts) : str_isdigit(parts[k]) /\ serial_len(Len(parts[k]))

hints_of(s, parts) ==
    (IF hint_flag9(s) THEN <<HINT_FLAG9>> ELSE <<>>)
    \o (IF hint_suffix(s) THEN <<HINT_SUFFIX>> ELSE <<>>)
    \o (IF hint_serial(parts) THEN <<HINT_SERIAL>> ELSE <<>>)

hint_txt(hints) == IF Len(hints) > 0 THEN <<" ", "|", " ">> \o join(<<",", " ">>, hints) ELSE <<>>

\* the locals of suggest_structure at its return statement; text is the returned string
suggest_locals(s) ==
    IF Len(s) = 0
    THEN [parts |-> <<>>, pattern |-> <<>>, groups |-> <<>>, hints |-> <<>>, text |-> <<>>]
    ELSE LET parts == split_parts(s)
             pattern == join(<<>>, [k \in 1..Len(parts) |-> token_pat(parts[k])])
             groups == join(<<" ", "+", " ">>, parts)
             hints == hints_of(s, parts)
         IN  [parts |-> parts, pattern |-> pattern, groups |-> groups, hints |-> hints,
              text |-> groups \o <<" ", " ", "[">> \o pattern \o <<"]">> \o hint_txt(hints)]

suggest_structure(s) == suggest_locals(s).text

----------------------------------------------------------------------------
(* Decoder hits (pyzbar Decoded: data, type, rect) *)

Rect(l, t, w, h) == [left |-> l, top |-> t, width |-> w, height |-> h]
Hit(ty, data, rect) == [type |-> ty, data |-> data, rect |-> rect]

HA == Hit("CODE128", <<57, 65>>, Rect(3, 1, 5, 7))
HB == Hit("CODE128", <<49, 50, 51, 52, 53>>, Rect(1, 1, 6, 8))
HC == Hit("CODE128", <<255, 65>>, Rect(2, 0, 4, 9))
HD == Hit("CODE128", <<66, 45, 49>>, Rect(3, 1, 8, 6))
HQ == Hit("QRCODE", <<65>>, Rect(0, 0, 5, 5))
Hits == {HA, HB, HC, HD, HQ}

RECURSIVE Repeat(_, _)
Repeat(s, n) == IF n = 0 THEN <<>> ELSE s \o Repeat(s, n - 1)

SeqsUpTo(S, n) == UNION {[1..k -> S] : k \in 0..n}

\* hit lists of the decode-only specification: every short list, and each longest one six times over
DecodeHitSeqs == SeqsUpTo(Hits, MaxHits) \cup {Repeat(s, 6) : s \in [1..MaxHits -> Hits]}

\* hit lists of the window specification
WindowHitSeqs ==
    {<<HQ>>, <<HB, HQ, HC>>, <<HD, HA>>, Repeat(<<HA, HB, HC, HD>>, 3)}

\* bytes.decode("utf-8", errors="replace") on ASCII bytes and on bytes that are never valid UTF-8
chr_of_byte(b) ==
    CASE b = 45 -> "-"
      [] b \in 48..57 -> CHOOSE c \in DigitChars : ToString(b - 48) = c
      [] b = 65 -> "A"
      [] b = 66 -> "B"
      [] b = 67 -> "C"
      [] OTHER -> REPLACEMENT

utf8_decode(data) == [i \in 1..Len(data) |-> chr_of_byte(data[i])]

----------------------------------------------------------------------------
(* decode_current: filter, sort, cap, build *)

ACCEPTED == "CODE128"

filter_code128(rs) == SelectSeq(rs, LAMBDA r : r.type = ACCEPTED)

\* variant: strict comparison, an element goes before the elements with its key
key_lt(a, b) == a.rect.top < b.rect.top \/ (a.rect.top = b.rect.top /\ a.rect.left < b.rect.left)

\* key_of(a) <= key_of(b) on the tuples (rect.top, rect.left)
key_le(a, b) == a.rect.top < b.rect.top \/ (a.rect.top = b.rect.top /\ a.rect.left <= b.rect.left)

\* list.sort(key=key_of) is stable: an element goes after every element whose key is not greater
RECURSIVE insert_sorted(_, _)
insert_sorted(sorted, r) ==
    IF Len(sorted) = 0 THEN <<r>>
    ELSE IF key_le(sorted[1], r) THEN <<sorted[1]>> \o insert_sorted(Tail(sorted), r)
    ELSE <<r>> \o sorted

RECURSIVE sort_by_key(_)
sort_by_key(res) ==
    IF Len(res) = 0 THEN <<>>
    ELSE insert_sorted(sort_by_key(SubSeq(res, 1, Len(res) - 1)), res[Len(res)])

\* variant: no cap
cap_all(res) == res

\* res[:10]
cap(res) == SubSeq(res, 1, IF Len(res) < MaxRows THEN Len(res) ELSE MaxRows)

Row(i, code, suggestion) == [index |-> i, code |-> code, suggestion |-> suggestion, note |-> <<>>]

row_of_hit(i, r) == Row(i, utf8_decode(r.data), suggest_structure(utf8_decode(r.data)))

\* variant: left and top swapped
rect_tuple_swapped(rr) == <<rr.top, rr.left, rr.width, rr.height>>

rect_tuple(rr) == <<rr.left, rr.top, rr.width, rr.height>>

build_rows(res) == [i \in 1..Len(cap(res)) |-> row_of_hit(i, cap(res)[i])]

build_rects(res) == [i \in 1..Len(cap(res)) |-> rect_tuple(cap(res)[i].rect)]

----------------------------------------------------------------------------
(* Table *)

\* int(text) for the text of a decimal number
RECURSIVE int_of_str(_)
int_of_str(t) ==
    IF Len(t) = 0 THEN 0
    ELSE 10 * int_of_str(SubSeq(t, 1, Len(t) - 1))
         + (CHOOSE d \in 0..9 : ToString(d) = t[Len(t)])

\* variant: the note item of a surviving row is not replaced
populate_table_keep_notes(rs, tbl) ==
    [r \in 1..Len(rs) |->
        [c0 |-> str_of_int(rs[r].index), c1 |-> rs[r].code, c2 |-> rs[r].suggestion,
         c3 |-> IF r <= Len(tbl) THEN tbl[r].c3 ELSE rs[r].note,
         hidden |-> IF r <= Len(tbl) THEN tbl[r].hidden ELSE FALSE]]

\* setRowCount(n) keeps the surviving rows' hidden flags; setItem fills the four columns
populate_table(rs, tbl) ==
    [r \in 1..Len(rs) |->
        [c0 |-> str_of_int(rs[r].index), c1 |-> rs[r].code, c2 |-> rs[r].suggestion,
         c3 |-> rs[r].note, hidden |-> IF r <= Len(tbl) THEN tbl[r].hidden ELSE FALSE]]

\* variant: the table is not read
sync_notes_skipped(rs, tbl) == rs

sync_notes_from_table(rs, tbl) ==
    [r \in 1..Len(rs) |-> IF r <= Len(tbl) THEN [rs[r] EXCEPT !.note = tbl[r].c3] ELSE rs[r]]

lower_ch(ch) == CASE ch = "A" -> "a" [] ch = "B" -> "b" [] ch = "C" -> "c" [] ch = "N" -> "n" [] OTHER -> ch
lower(t) == [i \in 1..Len(t) |-> lower_ch(t[i])]

RECURSIVE strip(_)
strip(t) ==
    IF Len(t) = 0 THEN t
    ELSE IF t[1] = " " THEN strip(Tail(t))
    ELSE IF t[Len(t)] = " " THEN strip(SubSeq(t, 1, Len(t) - 1))
    ELSE t

\* t in u
contains(u, t) == \E i \in 0..(Len(u) - Len(t)) : SubSeq(u, i + 1, i + Len(t)) = t

Notes == {<<>>, <<"n">>}
FilterTexts == {<<>>, <<" ", "N">>}

----------------------------------------------------------------------------
(* JSON files *)

ALLKEYS == {"index", "code", "suggestion", "note"}

\* a JSON object with the given keys; isdict is FALSE for an array element that is not an object
JObj(keys, i, code, suggestion, note) ==
    [isdict |-> TRUE, keys |-> keys, index |-> i, code |-> code, suggestion |-> suggestion, note |-> note]
JOther == [isdict |-> FALSE, keys |-> {}, index |-> 0, code |-> <<>>, suggestion |-> <<>>, note |-> <<>>]

\* asdict(r), written by json.dump and read back by json.load
asdict(r) == JObj(ALLKEYS, r.index, r.code, r.suggestion, r.note)

\* x.get(k, default)
get(x, k, default) == IF k \in x.keys THEN x[k] ELSE default

\* the dict comprehension of line 415: a later element overwrites an earlier one with the same key
RECURSIVE notes_by_index(_)
notes_by_index(a) ==
    IF Len(a) = 0 THEN <<>>
    ELSE LET front == notes_by_index(SubSeq(a, 1, Len(a) - 1))
             x == a[Len(a)]
             k == get(x, "index", 0)
         IN  IF x.isdict
             THEN [j \in (DOMAIN front) \cup {k} |-> IF j = k THEN get(x, "note", <<>>) ELSE front[j]]
             ELSE front

\* d.get(k, default)
dict_get(d, k, default) == IF k \in DOMAIN d THEN d[k] ELSE default

\* the file system entry of the exported file
ABSENT == [exists |-> FALSE, data |-> <<>>]
File(a) == [exists |-> TRUE, data |-> a]

FOREIGN1 == <<JObj(ALLKEYS, 1, <<"Z">>, <<"Z">>, <<"m">>), JObj({"index", "note"}, 1, <<>>, <<>>, <<"n">>)>>
FOREIGN2 == <<JOther, JObj({"note"}, 0, <<>>, <<>>, <<"n">>), JObj(ALLKEYS, 2, <<"Z">>, <<"Z">>, <<"m">>),
              JObj({"index"}, 3, <<>>, <<>>, <<>>), JObj({"index", "note"}, 10, <<>>, <<>>, <<"n">>)>>
ForeignFiles == {FOREIGN1, FOREIGN2}

----------------------------------------------------------------------------
(* State after MainWindow.__init__ *)

NOIMAGE == "None"
NORET == [parts |-> <<>>, pattern |-> <<>>, groups |-> <<>>, hints |-> <<>>, text |-> <<"pending">>]

Last(op, outcome) == [op |-> op, outcome |-> outcome]

InitWindow ==
    /\ HAS_ZBAR \in BOOLEAN
    /\ image = NOIMAGE
    /\ rows = <<>>
    /\ decoded_rects = <<>>
    /\ table = <<>>
    /\ results = <<>>
    /\ disk = ABSENT
    /\ last = Last("__init__", "ok")

Init ==
    /\ InitWindow
    /\ arg = <<>>
    /\ ret = NORET

----------------------------------------------------------------------------
(* Handlers *)

\* what zbar_decode does on a call: raise, or return a list of hits
Raises == [raises |-> TRUE, hits |-> <<>>]
Returns(hits) == [raises |-> FALSE, hits |-> hits]

\* how decode_current ends, given the flag and the decoder's behaviour
decode_end(has, out) == IF ~has THEN "unavailable" ELSE IF out.raises THEN "raise" ELSE "ok"

\* the body of decode_current from line 287 on, started with rows rs, boxes rc and table tbl
\* lines 298-318 as a function of the hit list: the rows and boxes decode_current builds
\* (merging with the empty function makes TLC tabulate it once)
decoded ==
    [h \in DecodeHitSeqs \cup WindowHitSeqs |->
        [rows |-> build_rows(sort_by_key(filter_code128(h))),
         rects |-> build_rects(sort_by_key(filter_code128(h)))]] @@ <<>>

decode_body(has, out, rs, rc, tbl, res0) ==
    IF decode_end(has, out) = "ok"
    THEN [rows |-> decoded[out.hits].rows, rects |-> decoded[out.hits].rects,
          table |-> populate_table(decoded[out.hits].rows, tbl), results |-> out.hits]
    ELSE [rows |-> rs, rects |-> rc, table |-> tbl, results |-> res0]

_set_image(out) ==
    LET d == decode_body(HAS_ZBAR, out, <<>>, <<>>, <<>>, results)
    IN  /\ image' = "RGB"
        /\ rows' = d.rows
        /\ decoded_rects' = d.rects
        /\ table' = d.table
        /\ results' = d.results
        /\ last' = Last("_set_image", decode_end(HAS_ZBAR, out))
        /\ UNCHANGED <<arg, ret, HAS_ZBAR, disk>>

decode_current(out) ==
    IF image = NOIMAGE
    THEN /\ last' = Last("decode_current", "noimage")
         /\ UNCHANGED <<arg, ret, HAS_ZBAR, image, rows, decoded_rects, table, results, disk>>
    ELSE LET d == decode_body(HAS_ZBAR, out, rows, decoded_rects, table, results)
         IN  /\ rows' = d.rows
             /\ decoded_rects' = d.rects
             /\ table' = d.table
             /\ results' = d.results
             /\ last' = Last("decode_current", decode_end(HAS_ZBAR, out))
             /\ UNCHANGED <<arg, ret, HAS_ZBAR, image, disk>>

\* the user edits the note cell of a visible table row
edit_note(r, text) ==
    /\ r \in 1..Len(table)
    /\ r <= MaxEditRow
    /\ ~table[r].hidden
    /\ table' = [table EXCEPT ![r].c3 = text]
    /\ last' = Last("edit_note", "ok")
    /\ UNCHANGED <<arg, ret, HAS_ZBAR, image, rows, decoded_rects, results, disk>>

row_visible(row, t) ==
    contains(lower(row.c1), t) \/ contains(lower(row.c2), t) \/ contains(lower(row.c3), t) \/ t = <<>>

apply_filter(text) ==
    /\ table' = [r \in 1..Len(table) |->
                    [table[r] EXCEPT !.hidden = ~row_visible(table[r], lower(strip(text)))]]
    /\ last' = Last("apply_filter", "ok")
    /\ UNCHANGED <<arg, ret, HAS_ZBAR, image, rows, decoded_rects, results, disk>>

\* how: "saved", "cancel" (no path chosen) or "error" (open fails)
export_json(how) ==
    /\ rows' = sync_notes_from_table(rows, table)
    /\ disk' = IF how = "saved" THEN File([i \in 1..Len(rows') |-> asdict(rows'[i])]) ELSE disk
    /\ last' = Last("export_json", how)
    /\ UNCHANGED <<arg, ret, HAS_ZBAR, image, decoded_rects, table, results>>

\* variant: a row without a match keeps its note
import_notes_keep(tbl, a) ==
    [r \in 1..Len(tbl) |->
        [tbl[r] EXCEPT !.c3 = dict_get(notes_by_index(a), int_of_str(tbl[r].c0), tbl[r].c3)]]

\* the table after the loop of lines 416-419
import_notes(tbl, a) ==
    [r \in 1..Len(tbl) |->
        [tbl[r] EXCEPT !.c3 = dict_get(notes_by_index(a), int_of_str(tbl[r].c0), <<>>)]]

\* a file was chosen and json.load returned the array a
import_json(a) ==
    /\ table' = import_notes(table, a)
    /\ rows' = sync_notes_from_table(rows, table')
    /\ last' = Last("import_json", "ok")
    /\ UNCHANGED <<arg, ret, HAS_ZBAR, image, decoded_rects, results, disk>>

\* no path chosen ("cancel"), or open / json.load raises ("error")
import_json_fails(how) ==
    /\ last' = Last("import_json", how)
    /\ UNCHANGED <<arg, ret, HAS_ZBAR, image, rows, decoded_rects, table, results, disk>>

\* the files the user can pick in the import dialog
ImportableFiles == ForeignFiles \cup (IF disk.exists THEN {disk.data} ELSE {})

WindowOutcomes == {Raises} \cup {Returns(h) : h \in WindowHitSeqs}

Next ==
    \/ \E out \in WindowOutcomes : _set_image(out)
    \/ \E out \in WindowOutcomes : decode_current(out)
    \/ \E r \in 1..MaxEditRow, text \in Notes : edit_note(r, text)
    \/ \E text \in FilterTexts : apply_filter(text)
    \/ \E how \in {"saved", "cancel", "error"} : export_json(how)
    \/ \E a \in ImportableFiles : import_json(a)
    \/ \E how \in {"cancel", "error"} : import_json_fails(how)

Spec == Init /\ [][Next]_vars

----------------------------------------------------------------------------
(* Specification of decode_current alone, over every short hit list *)

DecodeOutcomes == {Raises} \cup {Returns(h) : h \in DecodeHitSeqs}

NextDecode ==
    \/ \E out \in DecodeOutcomes : _set_image(out)
    \/ \E out \in DecodeOutcomes : decode_current(out)

SpecDecode == Init /\ [][NextDecode]_vars

----------------------------------------------------------------------------
(* Specification of suggest_structure: one call on an enumerated input *)

SuggestChars == {"9", "1", "A", "-"}

S_9123456A == <<"9", "1", "2", "3", "4", "5", "6", "A">>
S_ABC123 == <<"A", "B", "C", "1", "2", "3">>

SuggestInputs ==
    SeqsUpTo(SuggestChars, MaxLen)
    \cup {S_9123456A, S_ABC123,
          <<"1", "2", "3", "4", "5", "6", "7", "8">>,
          <<"A", "-", "1", "2", "3", "4", "5", "6", "7", "8">>,
          <<"9", REPLACEMENT, "a">>,
          <<"1", "2", "3", "4", "5", "6", "7", "A", "B", "C", "a", "-">>}

InitSuggest ==
    /\ InitWindow
    /\ HAS_ZBAR
    /\ arg \in SuggestInputs
    /\ ret = NORET

call_suggest_structure ==
    /\ ret = NORET
    /\ ret' = suggest_locals(arg)
    /\ UNCHANGED <<arg, HAS_ZBAR, image, rows, decoded_rects, table, results, disk, last>>

NextSuggest == call_suggest_structure

SpecSuggest == InitSuggest /\ [][NextSuggest]_vars

----------------------------------------------------------------------------
(* Properties of the result set *)

\* positions of the hits with the accepted type
AcceptedIdx(rs) == {i \in 1..Len(rs) : rs[i].type = "CODE128"}

\* hit m comes before hit i: smaller (top, left), or the same key and earlier in the input
ComesBefore(rs, m, i) ==
    \/ rs[m].rect.top < rs[i].rect.top
    \/ rs[m].rect.top = rs[i].rect.top /\ rs[m].rect.left < rs[i].rect.left
    \/ rs[m].rect.top = rs[i].rect.top /\ rs[m].rect.left = rs[i].rect.left /\ m < i

RankOf(rs, i) == Cardinality({m \in AcceptedIdx(rs) : ComesBefore(rs, m, i)}) + 1

ExpectedCount(rs) == IF Cardinality(AcceptedIdx(rs)) < 10 THEN Cardinality(AcceptedIdx(rs)) ELSE 10

DecodeEnded(how) == last.op \in {"_set_image", "decode_current"} /\ last.outcome = how

AllNotesEmpty ==
    /\ \A i \in 1..Len(rows) : rows[i].note = <<>>
    /\ \A r \in 1..Len(table) : table[r].c3 = <<>>

\* C1: in every reachable state the result set holds at most 10 rows.
C1_AtMostTenRows == Len(rows) <= 10

C1_Witness == DecodeEnded("ok") /\ Cardinality(AcceptedIdx(results)) > 10 /\ Len(rows) = 10

\* C2: after a successful decode the rows are, in order, the first min(10, k) hits of the
\* stable sort by (top, left) of the k hits of type CODE128: the accepted hit of rank j <= 10
\* gives row j, hits of another type and hits of rank above 10 give no row.
C2_RowsAreSortedAcceptedHits ==
    DecodeEnded("ok") =>
        /\ Len(rows) = ExpectedCount(results)
        /\ \A i \in AcceptedIdx(results) :
              RankOf(results, i) <= 10 =>
                  /\ rows[RankOf(results, i)].code = utf8_decode(results[i].data)
                  /\ decoded_rects[RankOf(results, i)][1] = results[i].rect.left
                  /\ decoded_rects[RankOf(results, i)][2] = results[i].rect.top

C2_Witness ==
    /\ DecodeEnded("ok")
    /\ Cardinality(AcceptedIdx(results)) > 10
    /\ \E i, j \in AcceptedIdx(results) : i < j /\ ComesBefore(results, j, i)
    /\ rows[1].code # utf8_decode(results[1].data)

\* C3: in every reachable state rows[i].index is the 1-based position i, the box list is as
\* long as rows, and box i is (left, top, width, height) of the hit that produced row i.
C3_IndexAndBoxes ==
    /\ Len(decoded_rects) = Len(rows)
    /\ \A i \in 1..Len(rows) : rows[i].index = i
    /\ \A i \in AcceptedIdx(results) :
          RankOf(results, i) <= Len(rows) =>
              decoded_rects[RankOf(results, i)]
                  = <<results[i].rect.left, results[i].rect.top,
                      results[i].rect.width, results[i].rect.height>>

C3_Witness ==
    /\ last = Last("import_json", "ok")
    /\ Len(rows) = 10
    /\ \E i, j \in AcceptedIdx(results) : i < j /\ ComesBefore(results, j, i)

\* C10: after a decode in which the decoder raised, on loading an image or on Retry,
\* the result set (rows and boxes) is empty.
C10_FailedDecodeLeavesEmpty == DecodeEnded("raise") => rows = <<>> /\ decoded_rects = <<>>

----------------------------------------------------------------------------
(* Properties of notes, export and import *)

\* positions of the objects of array a that carry the index idx
ObjectsWithIndex(a, idx) ==
    {k \in 1..Len(a) : a[k].isdict /\ "index" \in a[k].keys /\ a[k].index = idx}

Max(S) == CHOOSE x \in S : \A y \in S : y <= x

\* the note the array a holds for idx (of the last such object when several carry idx),
\* empty when no object carries idx or the object has no note
ImportedNote(a, idx) ==
    IF ObjectsWithIndex(a, idx) = {} THEN <<>>
    ELSE IF "note" \in a[Max(ObjectsWithIndex(a, idx))].keys
         THEN a[Max(ObjectsWithIndex(a, idx))].note
         ELSE <<>>

SameResultSet ==
    /\ Len(rows') = Len(rows)
    /\ Len(table') = Len(table)
    /\ decoded_rects' = decoded_rects
    /\ \A i \in 1..Len(rows) :
          /\ rows'[i].index = rows[i].index
          /\ rows'[i].code = rows[i].code
          /\ rows'[i].suggestion = rows[i].suggestion
          /\ table'[i].c0 = table[i].c0
          /\ table'[i].c1 = table[i].c1
          /\ table'[i].c2 = table[i].c2

\* C7: a successful import_json of an array a changes only notes: every row's note, in rows
\* and in the table, becomes the note a holds for the row's index, or the empty string when
\* a holds none; row count, index, code, suggestion and boxes stay as they were.
C7_ImportChangesOnlyNotes ==
    [][\A a \in ImportableFiles :
          (last' = Last("import_json", "ok") /\ import_json(a)) =>
              /\ SameResultSet
              /\ \A i \in 1..Len(rows) :
                    /\ rows'[i].note = ImportedNote(a, rows[i].index)
                    /\ table'[i].c3 = ImportedNote(a, rows[i].index)]_vars

C7_Witness ==
    /\ last = Last("import_json", "ok")
    /\ \E i, j \in 1..Len(rows) :
          /\ rows[i].note # <<>>
          /\ rows[j].note = <<>>
          /\ rows[i].code # <<"Z">>

\* C8: export_json writes every row with the note displayed in the table at that time, and
\* importing that file into a result set with the same indices gives every row, in rows and
\* in the table, the note of the file, leaving code and suggestion those of the current set.
C8_ExportImportRoundTrip ==
    [][/\ (last' = Last("export_json", "saved") /\ export_json("saved")) =>
              /\ disk'.exists
              /\ Len(disk'.data) = Len(table)
              /\ \A i \in 1..Len(table) :
                    /\ disk'.data[i].index = rows[i].index
                    /\ disk'.data[i].note = table[i].c3
       /\ (/\ last' = Last("import_json", "ok")
           /\ disk.exists
           /\ Len(disk.data) = Len(rows)
           /\ import_json(disk.data)) =>
              /\ SameResultSet
              /\ \A i \in 1..Len(rows) :
                    /\ rows'[i].note = disk.data[i].note
                    /\ table'[i].c3 = disk.data[i].note]_vars

C8_Witness ==
    /\ last = Last("import_json", "ok")
    /\ disk.exists
    /\ Len(disk.data) = Len(rows)
    /\ \A i \in 1..Len(rows) : rows[i].note = disk.data[i].note /\ table[i].c3 = disk.data[i].note
    /\ \E i, j \in 1..Len(rows) :
          /\ rows[i].note # <<>>
          /\ rows[i].note # rows[j].note
          /\ rows[i].code # disk.data[i].code

\* C9: right after a decode that completes every note, in rows and in the table, is empty and
\* rows and boxes are those of the new hits alone; and notes that were all empty become
\* non-empty only by a note edit or an import.
C9_DecodeCreatesFreshSet ==
    /\ [](DecodeEnded("ok") =>
              /\ AllNotesEmpty
              /\ Len(rows) = ExpectedCount(results)
              /\ Len(table) = Len(rows)
              /\ Len(decoded_rects) = Len(rows))
    /\ [][(AllNotesEmpty /\ ~AllNotesEmpty') => last'.op \in {"edit_note", "import_json"}]_vars

C9_Witness ==
    /\ last = Last("decode_current", "ok")
    /\ AllNotesEmpty
    /\ Len(rows) > 0
    /\ disk.exists
    /\ Len(disk.data) = Len(rows)
    /\ \E i \in 1..Len(rows) : disk.data[i].note # <<>> /\ disk.data[i].code = rows[i].code

----------------------------------------------------------------------------
(* Properties of suggest_structure *)

Returned == ret # NORET

AllIn(t, S) == \A i \in 1..Len(t) : t[i] \in S

RECURSIVE Flatten(_)
Flatten(list) == IF Len(list) = 0 THEN <<>> ELSE list[1] \o Flatten(Tail(list))

KindOf(tok) == IF AllIn(tok, DigitChars) THEN "N" ELSE IF AllIn(tok, AlphaChars) THEN "L" ELSE "X"

\* positions i..j of s are a maximal run of digits
DigitRun(s, i, j) ==
    /\ \A k \in i..j : s[k] \in DigitChars
    /\ (i = 1 \/ s[i - 1] \notin DigitChars)
    /\ (j = Len(s) \/ s[j + 1] \notin DigitChars)

ExpectedHints(s) ==
    (IF s[1] = "9" /\ Len(s) >= 2 THEN <<HINT_FLAG9>> ELSE <<>>)
    \o (IF s[Len(s)] \in AlphaChars THEN <<HINT_SUFFIX>> ELSE <<>>)
    \o (IF \E i \in 1..Len(s) : \E j \in i..Len(s) : DigitRun(s, i, j) /\ j - i + 1 \in 5..7
        THEN <<HINT_SERIAL>> ELSE <<>>)

TXT_ABC123 ==
    <<"A", "B", "C", " ", "+", " ", "1", "2", "3", " ", " ", "[",
      "L", "{", "3", "}", "N", "{", "3", "}", "]">>

\* C4: a non-empty input is split into tokens that are maximal digit runs, maximal letter runs
\* or single other characters; the tokens concatenate to the input, an X token has length 1,
\* the pattern is the concatenation of KIND{length}, the groups are the tokens joined with
\* " + "; "ABC123" gives "ABC + 123  [L{3}N{3}]" and the empty input gives the empty string.
C4_Segmentation ==
    Returned =>
        IF arg = <<>> THEN ret.text = <<>>
        ELSE /\ Flatten(ret.parts) = arg
             /\ \A k \in 1..Len(ret.parts) :
                   /\ Len(ret.parts[k]) >= 1
                   /\ KindOf(ret.parts[k]) = "X" => Len(ret.parts[k]) = 1
             /\ \A k \in 1..(Len(ret.parts) - 1) :
                   KindOf(ret.parts[k]) = "X" \/ KindOf(ret.parts[k]) # KindOf(ret.parts[k + 1])
             /\ ret.pattern = Flatten([k \in 1..Len(ret.parts) |->
                                  <<KindOf(ret.parts[k]), "{">>
                                      \o str_of_int(Len(ret.parts[k])) \o <<"}">>])
             /\ ret.groups = join(<<" ", "+", " ">>, ret.parts)
             /\ SubSeq(ret.text, 1, Len(ret.groups) + Len(ret.pattern) + 4)
                   = ret.groups \o <<" ", " ", "[">> \o ret.pattern \o <<"]">>
             /\ arg = S_ABC123 => ret.text = TXT_ABC123

C4_Witness ==
    /\ Returned
    /\ Len(ret.parts) = 4
    /\ \E k \in 1..Len(ret.parts) : KindOf(ret.parts[k]) = "X"
    /\ \E k \in 1..Len(ret.parts) : KindOf(ret.parts[k]) = "N" /\ Len(ret.parts[k]) > 1
    /\ \E k \in 1..Len(ret.parts) : KindOf(ret.parts[k]) = "L" /\ Len(ret.parts[k]) > 1

\* C5: for a non-empty input the hints are, in this order, the starts-with-9 hint iff the first
\* character is 9 and the length is at least 2, the letter-suffix hint iff the last character
\* is a letter, the numeric-serial hint iff some maximal digit run has length 5, 6 or 7; the
\* output ends with " | " and the comma-joined hints iff there is at least one hint.
C5_Hints ==
    (Returned /\ arg # <<>>) =>
        /\ ret.hints = ExpectedHints(arg)
        /\ ret.text = ret.groups \o <<" ", " ", "[">> \o ret.pattern \o <<"]">>
                        \o (IF ExpectedHints(arg) = <<>> THEN <<>>
                            ELSE <<" ", "|", " ">> \o join(<<",", " ">>, ExpectedHints(arg)))

C5_Witness ==
    /\ Returned
    /\ ret.hints = <<HINT_FLAG9, HINT_SUFFIX>>
    /\ \E k \in 1..Len(ret.parts) : KindOf(ret.parts[k]) = "N" /\ Len(ret.parts[k]) = 4

\* C6 as stated: "9123456A" gives tokens "9123456" and "A", pattern N{7}L{1} and exactly the
\* two hints starts-with-9 and letter-suffix, no numeric-serial hint.
C6_TwoHints ==
    (Returned /\ arg = S_9123456A) =>
        /\ ret.parts = <<(<<"9", "1", "2", "3", "4", "5", "6">>), (<<"A">>)>>
        /\ ret.pattern = <<"N", "{", "7", "}", "L", "{", "1", "}">>
        /\ ret.hints = <<HINT_FLAG9, HINT_SUFFIX>>

\* C6 amended: "9123456A" gives tokens "9123456" and "A", pattern N{7}L{1} and three hints:
\* starts-with-9, letter-suffix and, for the 7-digit token, numeric-serial.
C6_ThreeHints ==
    (Returned /\ arg = S_9123456A) =>
        /\ ret.parts = <<(<<"9", "1", "2", "3", "4", "5", "6">>), (<<"A">>)>>
        /\ ret.pattern = <<"N", "{", "7", "}", "L", "{", "1", "}">>
        /\ ret.hints = <<HINT_FLAG9, HINT_SUFFIX, HINT_SERIAL>>
        /\ ret.text = <<"9", "1", "2", "3", "4", "5", "6", " ", "+", " ", "A", " ", " ", "[",
                        "N", "{", "7", "}", "L", "{", "1", "}", "]", " ", "|", " ">>
                      \o HINT_FLAG9 \o <<",", " ">> \o HINT_SUFFIX \o <<",", " ">> \o HINT_SERIAL

C6_Witness == Returned /\ arg = S_9123456A

====
